---- MODULE Spec2Model ----
(***************************************************************************)
(* gstDecoder (src/codec/gstDecoder.cpp): the streaming frame capture      *)
(* engine.  Two threads act on one decoder object:                         *)
(*   - the application thread calls Open(), Close() and Capture();         *)
(*   - the backend's streaming thread calls onBuffer(), onPreroll() and    *)
(*     onEOS().                                                            *)
(* Each action below is one step of one of these threads, cut where the    *)
(* code touches state the other thread can see.  RingBuffer and Event are  *)
(* classes of the repository whose sources are not under src/; they are    *)
(* modelled from their contract in spec.md sections 4.1 and 4.2.           *)
(***************************************************************************)
EXTENDS Integers, FiniteSets, Sequences, TLC

\* ---------------------------------------------------------------- bounds
MaxFrames  == 2
MaxBuffers == 2      \* largest mOptions.numBuffers explored

\* ------------------------------------------------------------ value sets
Formats   == {"rgb8", "unsupported"}
\* frame geometries: width = height = d; two, so that the geometry can change
FrameDims == {1, 2}
Timeouts  == {"zero", "finite", "infinite"}
\* where checkBuffer gives up before it touches the decoder's fields
EarlyFails == {"sample", "caps", "buffer", "map", "struct", "wh", "dims"}

\* what a buffer slot or the caller's output holds
Frame(id) == <<"frame", id>>
Garbage   == <<"garbage", 0>>     \* never written, or freed by a reallocation
Torn      == <<"torn", 0>>        \* partly overwritten while being read
NoOutput  == <<"null", 0>>        \* the caller's pointer, not written
NullSlot  == 0 - 1                \* a NULL buffer pointer

\* --------------------------------------------------------- configurations
\* the fields of videoOptions that buildLaunchStr reads.  exists: the file of
\* a file:// resource exists; flip: flipMethod is not FLIP_NONE; width and
\* height: the pre-specified size, 0 when not specified.
Protocols  == {"file", "rtp", "rtsp", "v4l2"}
Extensions == {"mkv", "mp4", "qt", "flv", "avi", "h264", "h265", "mov"}
Codecs     == {"h264", "h265", "vp8", "vp9", "mpeg2", "mpeg4", "raw"}
Ports      == {0 - 1, 0, 1}
PresetDims == {<<0, 0>>, <<1, 1>>, <<2, 0>>, <<0, 2>>}

Configs ==
    { [protocol |-> pr, extension |-> ex, exists |-> fe, port |-> po,
       codec |-> co, width |-> wh[1], height |-> wh[2], flip |-> fl] :
        pr \in Protocols, ex \in Extensions, fe \in BOOLEAN, po \in Ports,
        co \in Codecs, wh \in PresetDims, fl \in BOOLEAN }

\* an existing H.264 file in a Matroska container, size not specified
DefaultCfg ==
    [protocol |-> "file", extension |-> "mkv", exists |-> TRUE, port |-> 0 - 1,
     codec |-> "h264", width |-> 0, height |-> 0, flip |-> FALSE]

VARIABLES
    \* ---- gstDecoder fields
    mEOS,          \* mEOS
    mStreaming,    \* videoSource::mStreaming
    optWidth,      \* mOptions.width
    optHeight,     \* mOptions.height
    numBuffers,    \* mOptions.numBuffers
    mBufferYUV,    \* raw ring buffer: [count, size, slots, write, readOnce]
    mBufferRGB,    \* output ring buffer: allocated slot size (0: none)
    mWaitEvent,    \* TRUE: a wake is pending
    \* ---- backend (GStreamer pipeline and bus)
    mPipeline,     \* "NULL" | "ASYNC" | "PLAYING"
    mBus,          \* TRUE: an error message waits on the bus
    \* ---- streaming thread
    prodPc, pFail, pDim, pSlot, pEffects,
    pMaps,         \* mappings of the sample's buffer (gst_buffer_map) that the
                   \* running callback has not unmapped
    \* ---- application thread
    conPc, openFrom, openErr, cFmt, cTimeout, cSlot, cStale, cSeen,
    cResult, output,
    \* ---- history
    nextId,        \* frames published so far; the last one has this id
    eosReturned,   \* onEOS has returned
    callAfterEOS,  \* the running (or last) call began after onEOS returned
    capQuiet,      \* the capture began on a Streaming decoder with an unread
                   \* frame and an idle producer, and no frame arrived since
    prevConvFail,  \* the previous Capture() failed in the conversion
    delivered,     \* ids of the frames returned by successful captures
    dupDelivered,  \* some frame was returned by two captures
    \* ---- construction and destruction
    cfg,           \* the videoOptions handed to Create()
    created,       \* what Create() returned: "none" (not called), "dec", "null"
    handles,       \* mAppSink, mBus, mPipeline: "none", "failed" (parse
                   \* error), "held", "released"
    inDtor,        \* ~gstDecoder runs
    \* ---- application thread, history
    cDim,          \* width = height of the raw frame handed to this Capture()
    capAfterClose, \* this Capture() follows a Close() of a Streaming decoder
                   \* that has not reached end-of-stream; it is in its Open()
    closeHist,     \* << consecutive Close() calls (capped at 2), and mEOS,
                   \* mStreaming, mPipeline as the first of them left them >>
    kept           \* an unread frame was published when Close() returned, the
                   \* producer was idle, and since then no sample arrived and
                   \* no Capture() got a raw frame

vars == << mEOS, mStreaming, optWidth, optHeight, numBuffers, mBufferYUV,
           mBufferRGB, mWaitEvent, mPipeline, mBus,
           prodPc, pFail, pDim, pSlot, pEffects, pMaps,
           conPc, openFrom, openErr, cFmt, cTimeout, cSlot, cStale, cSeen,
           cResult, output,
           nextId, eosReturned, callAfterEOS, capQuiet, prevConvFail,
           delivered, dupDelivered,
           cfg, created, handles, inDtor, cDim, capAfterClose, closeHist,
           kept >>

decVars  == << mEOS, mStreaming >>
lifeVars == << cfg, created, handles, inDtor >>
optVars  == << optWidth, optHeight, numBuffers, lifeVars >>
prodVars == << prodPc, pFail, pDim, pSlot, pEffects, pMaps >>
conVars  == << conPc, openFrom, openErr, cFmt, cTimeout, cSlot, cDim, cStale,
               cSeen, cResult, output >>
histVars == << nextId, eosReturned, callAfterEOS, capAfterClose, capQuiet,
               prevConvFail, delivered, dupDelivered, closeHist, kept >>

\* ------------------------------------------------------------ RingBuffer
\* spec.md 4.1.  Slots are numbered 0..count-1; the write cursor names the
\* latest published slot.
RB_Slots(count) == [i \in 0..(count - 1) |-> Garbage]

RB_Empty == [count |-> 0, size |-> 0, slots |-> RB_Slots(0), write |-> 0,
             readOnce |-> FALSE]

\* Allocate is a no-op unless count or slot size differ
RB_NeedsAlloc(rb, count, size) == rb.count # count \/ rb.size # size

\* a full reallocation: every slot is fresh memory, the cursors stay
RB_Alloc(rb, count, size) ==
    IF RB_NeedsAlloc(rb, count, size)
    THEN [rb EXCEPT !.count = count, !.size = size,
                    !.slots = RB_Slots(count)]
    ELSE rb

\* a reallocation that could not get its memory: the old pool is gone, the
\* cursors stay
RB_AllocFailed(rb) ==
    [rb EXCEPT !.count = 0, !.size = 0, !.slots = RB_Slots(0)]

\* NextForWrite: the slot after the latest published one, not yet published
RB_PeekWrite(rb) ==
    IF rb.count = 0 THEN NullSlot ELSE (rb.write + 1) % rb.count

\* PublishWrite: advance the write cursor; the slot is now the latest
RB_NextWrite(rb) ==
    IF rb.count = 0 THEN rb
    ELSE [rb EXCEPT !.write = (rb.write + 1) % rb.count, !.readOnce = FALSE]

\* ReadLatestOnce: the latest published slot, at most once per publication
RB_ReadLatestOnceSlot(rb) ==
    IF rb.count = 0 \/ rb.readOnce THEN NullSlot ELSE rb.write

RB_ReadLatestOnce(rb) ==
    IF rb.count = 0 \/ rb.readOnce THEN rb ELSE [rb EXCEPT !.readOnce = TRUE]

RB_Store(rb, slot, v) == [rb EXCEPT !.slots[slot] = v]

\* ------------------------------------------------------------------ Init
\* the fields after the constructor (cr = "none": Create() has not run init
\* yet), or after a successful Create() (cr = "dec", h = "held")
Fields(c, nb, cr, h) ==
    /\ cfg = c
    /\ created = cr
    /\ handles = h
    /\ inDtor = FALSE
    /\ mEOS = FALSE
    /\ mStreaming = FALSE
    /\ optWidth = c.width
    /\ optHeight = c.height
    /\ numBuffers = nb
    /\ mBufferYUV = RB_Empty
    /\ mBufferRGB = 0
    /\ mWaitEvent = FALSE
    /\ mPipeline = "NULL"
    /\ mBus = FALSE
    /\ prodPc = "idle"
    /\ pFail = "none"
    /\ pDim = 0
    /\ pSlot = NullSlot
    /\ pMaps = 0
    /\ pEffects = {}
    /\ conPc = "idle"
    /\ openFrom = "api"
    /\ openErr = "none"
    /\ cFmt = "rgb8"
    /\ cTimeout = "zero"
    /\ cSlot = NullSlot
    /\ cDim = 0
    /\ cStale = FALSE
    /\ cSeen = Garbage
    /\ cResult = "none"
    /\ output = NoOutput
    /\ nextId = 0
    /\ eosReturned = FALSE
    /\ callAfterEOS = FALSE
    /\ capAfterClose = FALSE
    /\ capQuiet = FALSE
    /\ prevConvFail = FALSE
    /\ delivered = {}
    /\ dupDelivered = FALSE
    /\ closeHist = << >>
    /\ kept = FALSE

\* a decoder that Create() returned, for a resource whose size is discovered
\* from the stream
Init == \E nb \in 0..MaxBuffers : Fields(DefaultCfg, nb, "dec", "held")

\* a decoder that Create() returned, with a pre-specified width or height
InitPreset ==
    \E wh \in PresetDims :
        Fields([DefaultCfg EXCEPT !.width = wh[1], !.height = wh[2]], 1,
               "dec", "held")

\* a constructed decoder on which Create() is about to call init()
InitCreate == \E c \in Configs : Fields(c, 1, "none", "none")

\* ---------------------------------------------------------- buildLaunchStr
NoLaunch == [ok |-> FALSE, launch |-> << >>]

\* the parser element of a file source, by codec
FileParse(codec) ==
    IF codec = "h264" THEN <<"h264parse">>
    ELSE IF codec = "h265" THEN <<"h265parse">>
    ELSE IF codec = "mpeg2" THEN <<"mpegvideoparse">>
    ELSE IF codec = "mpeg4" THEN <<"mpeg4videoparse">>
    ELSE << >>

\* the depayloader of an RTP or RTSP source, by codec
RtpDepay(codec) ==
    IF codec = "h264" THEN <<"rtph264depay", "h264parse">>
    ELSE IF codec = "h265" THEN <<"rtph265depay", "h265parse">>
    ELSE IF codec = "vp8" THEN <<"rtpvp8depay">>
    ELSE IF codec = "vp9" THEN <<"rtpvp9depay">>
    ELSE << >>

\* LaunchSource that lets the backend find out about the container: the
\* extension of a file is not tested
LaunchSource_AnyExtension(c) ==
    IF c.protocol = "file"
    THEN IF ~c.exists THEN NoLaunch
         ELSE [ok |-> TRUE,
               launch |-> <<"filesrc", "queue">> \o FileParse(c.codec)]
    ELSE IF c.protocol = "rtp"
    THEN IF c.port <= 0 THEN NoLaunch
         ELSE [ok |-> TRUE, launch |-> <<"udpsrc">> \o RtpDepay(c.codec)]
    ELSE IF c.protocol = "rtsp"
    THEN [ok |-> TRUE, launch |-> <<"rtspsrc", "queue">> \o RtpDepay(c.codec)]
    ELSE NoLaunch

\* the source part of the pipeline, by protocol
LaunchSource(c) ==
    IF c.protocol = "file"
    THEN IF ~c.exists THEN NoLaunch
         ELSE IF c.extension = "mkv"
         THEN [ok |-> TRUE,
               launch |-> <<"filesrc", "matroskademux", "queue">>
                            \o FileParse(c.codec)]
         ELSE IF c.extension \in {"mp4", "qt"}
         THEN [ok |-> TRUE,
               launch |-> <<"filesrc", "qtdemux", "queue">>
                            \o FileParse(c.codec)]
         ELSE IF c.extension = "flv"
         THEN [ok |-> TRUE,
               launch |-> <<"filesrc", "flvdemux", "queue">>
                            \o FileParse(c.codec)]
         ELSE IF c.extension = "avi"
         THEN [ok |-> TRUE,
               launch |-> <<"filesrc", "avidemux", "queue">>
                            \o FileParse(c.codec)]
         ELSE IF c.extension \notin {"h264", "h265"} THEN NoLaunch
         ELSE [ok |-> TRUE,
               launch |-> <<"filesrc", "queue">> \o FileParse(c.codec)]
    ELSE IF c.protocol = "rtp"
    THEN IF c.port <= 0 THEN NoLaunch
         ELSE [ok |-> TRUE, launch |-> <<"udpsrc">> \o RtpDepay(c.codec)]
    ELSE IF c.protocol = "rtsp"
    THEN [ok |-> TRUE, launch |-> <<"rtspsrc", "queue">> \o RtpDepay(c.codec)]
    ELSE NoLaunch

\* the decoder element, by codec; none for an unsupported codec
LaunchDecoder(codec) ==
    IF codec = "h264" THEN <<"omxh264dec">>
    ELSE IF codec = "h265" THEN <<"omxh265dec">>
    ELSE IF codec = "vp8" THEN <<"omxvp8dec">>
    ELSE IF codec = "vp9" THEN <<"omxvp9dec">>
    ELSE IF codec = "mpeg2" THEN <<"omxmpeg2videodec">>
    ELSE IF codec = "mpeg4" THEN <<"omxmpeg4videodec">>
    ELSE << >>

\* the pipeline forces the size of its frames: both width and height are
\* pre-specified
ForcesSize(c) == c.width # 0 /\ c.height # 0

\* resize if requested
LaunchResize(c) ==
    IF ForcesSize(c) \/ c.flip
    THEN <<"nvvidconv">>
           \o (IF c.flip THEN <<"flip-method">> ELSE << >>)
           \o (IF ForcesSize(c) THEN <<"video/x-raw,width,height,NV12">>
                                ELSE <<"video/x-raw">>)
    ELSE <<"video/x-raw">>

\* buildLaunchStr: [ok |-> the return value, launch |-> mLaunchStr]
buildLaunchStr(c) ==
    LET src == LaunchSource(c)
        dec == LaunchDecoder(c.codec)
    IN IF ~src.ok THEN NoLaunch
       ELSE IF dec = << >> THEN NoLaunch
       ELSE [ok |-> TRUE,
             launch |-> src.launch \o dec \o LaunchResize(c)
                          \o <<"appsink name=mysink">>]

\* ------------------------------------------------------------------ Create
\* Create: new gstDecoder, init().  parse: what the backend makes of the
\* launch string: "ok"; "err" (gst_parse_launch reports an error); "nosink"
\* (the pipeline exists but its bus or appsink cannot be retrieved).
Create(parse) ==
    /\ created = "none"
    /\ LET b == buildLaunchStr(cfg)
       IN IF ~b.ok
          THEN created' = "null" /\ UNCHANGED handles
          ELSE IF parse = "err"
          THEN created' = "null" /\ handles' = "failed"
          ELSE IF parse = "nosink"
          THEN created' = "null" /\ handles' = "held"
          ELSE created' = "dec" /\ handles' = "held"
    /\ UNCHANGED << decVars, optWidth, optHeight, numBuffers, cfg, inDtor,
                    mBufferYUV, mBufferRGB, mWaitEvent, mPipeline, mBus,
                    prodVars, conVars, histVars >>

\* ------------------------------------------------------------ checkMsgBus
\* drains the bus; the messages are only printed
checkMsgBus == mBus' = FALSE

\* ------------------------------------------------- streaming thread: EOS
\* onEOS, first store: dec->mEOS = true
OnEOSSet ==
    /\ prodPc = "idle"
    /\ mPipeline = "PLAYING"
    /\ ~mEOS
    /\ mEOS' = TRUE
    /\ prodPc' = "eos_clear"
    /\ UNCHANGED << mStreaming, optVars, mBufferYUV, mBufferRGB, mWaitEvent,
                    mPipeline, mBus, pFail, pDim, pSlot, pMaps, pEffects, conVars,
                    histVars >>

\* onEOS, second store: dec->mStreaming = false; the callback returns
OnEOSClear ==
    /\ prodPc = "eos_clear"
    /\ mStreaming' = FALSE
    /\ eosReturned' = TRUE
    /\ prodPc' = "idle"
    /\ UNCHANGED << mEOS, optVars, mBufferYUV, mBufferRGB, mWaitEvent,
                    mPipeline, mBus, pFail, pDim, pSlot, pMaps, pEffects, conVars,
                    nextId, closeHist, callAfterEOS, capAfterClose, capQuiet, prevConvFail, delivered,
                    dupDelivered, kept >>

\* --------------------------------------------- streaming thread: preroll
\* OnPrerollPull that forwards the preroll sample like a frame: it wakes the
\* consumer
OnPrerollPull_Forwards(sample) ==
    /\ prodPc = "idle"
    /\ mPipeline = "PLAYING"
    /\ prodPc' = IF sample THEN "pr_bus" ELSE "idle"
    /\ mWaitEvent' = (mWaitEvent \/ sample)
    /\ UNCHANGED << decVars, optVars, mBufferYUV, mBufferRGB,
                    mPipeline, mBus, pFail, pDim, pSlot, pMaps, pEffects, conVars,
                    histVars >>

\* onPreroll: pull the preroll sample and release it; without a sample the
\* callback returns at once
OnPrerollPull(sample) ==
    /\ prodPc = "idle"
    /\ mPipeline = "PLAYING"
    /\ prodPc' = IF sample THEN "pr_bus" ELSE "idle"
    /\ UNCHANGED << decVars, optVars, mBufferYUV, mBufferRGB, mWaitEvent,
                    mPipeline, mBus, pFail, pDim, pSlot, pMaps, pEffects, conVars,
                    histVars >>

\* onPreroll: checkMsgBus, return
OnPrerollBus ==
    /\ prodPc = "pr_bus"
    /\ checkMsgBus
    /\ prodPc' = "idle"
    /\ UNCHANGED << decVars, optVars, mBufferYUV, mBufferRGB, mWaitEvent,
                    mPipeline, pFail, pDim, pSlot, pMaps, pEffects, conVars,
                    histVars >>

\* ------------------------------------------- streaming thread: new frame
\* the checks of checkBuffer that come before gst_buffer_map has succeeded
PreMapFails == {"sample", "caps", "buffer", "map"}

\* the mappings of the buffer when checkBuffer leaves its early checks at the
\* check `fail` (or passes them all): gst_buffer_map has run and succeeded
\* unless the sample fell at a check before it
MapsAfter(fail) == IF fail \in PreMapFails THEN 0 ELSE 1

\* release_return: gst_sample_unref(gstSample); return.  The mappings of the
\* buffer stay as they are.
release_return(maps) == maps

\* CbStart without the test of width and height: a frame with a non-positive
\* width or height is ingested like any other
CbStart_NoDimCheck(fail, d) ==
    /\ prodPc = "idle"
    /\ mPipeline = "PLAYING"
    /\ ~mEOS
    /\ ForcesSize(cfg) => d = cfg.width
    /\ pEffects' = {}
    /\ capQuiet' = FALSE
    /\ kept' = FALSE
    /\ pMaps' = release_return(MapsAfter(fail))
    /\ IF fail \in EarlyFails \ {"dims"}
       THEN /\ prodPc' = "cb_bus"
            /\ pFail' = "early"
            /\ UNCHANGED << optWidth, optHeight, pDim >>
       ELSE /\ nextId < MaxFrames
            /\ optWidth' = d
            /\ optHeight' = d
            /\ pDim' = d
            /\ pFail' = IF fail = "dims" THEN "early" ELSE "none"
            /\ prodPc' = "cb_alloc"
    /\ UNCHANGED << decVars, numBuffers, lifeVars, mBufferYUV, mBufferRGB, mWaitEvent,
                    mPipeline, mBus, pSlot, conVars, nextId, closeHist, eosReturned,
                    callAfterEOS, capAfterClose, prevConvFail, delivered,
                    dupDelivered >>

\* onBuffer -> checkBuffer up to the stores of mOptions.width/height.
\* fail: the first check of checkBuffer the sample does not pass
\* ("none": all pass); d: the frame's width and height.
CbStart(fail, d) ==
    /\ prodPc = "idle"
    /\ mPipeline = "PLAYING"
    /\ ~mEOS
    /\ ForcesSize(cfg) => d = cfg.width
    /\ pEffects' = {}
    /\ capQuiet' = FALSE
    /\ kept' = FALSE
    /\ pMaps' = release_return(MapsAfter(fail))
    /\ IF fail \in EarlyFails
       THEN /\ prodPc' = "cb_bus"
            /\ pFail' = "early"
            /\ UNCHANGED << optWidth, optHeight, pDim >>
       ELSE /\ nextId < MaxFrames
            /\ optWidth' = d
            /\ optHeight' = d
            /\ pDim' = d
            /\ pFail' = "none"
            /\ prodPc' = "cb_alloc"
    /\ UNCHANGED << decVars, numBuffers, lifeVars, mBufferYUV, mBufferRGB, mWaitEvent,
                    mPipeline, mBus, pSlot, conVars, nextId, closeHist, eosReturned,
                    callAfterEOS, capAfterClose, prevConvFail, delivered,
                    dupDelivered >>

\* the application thread holds a pointer into the raw pool
HoldsRawSlot == conPc \in {"cap_alloc", "cap_convert", "cap_converting"}

\* checkBuffer: mBufferYUV.Alloc, Peek(Write), and memcpy begins
CbAllocCopy ==
    /\ prodPc = "cb_alloc"
    /\ LET need == RB_NeedsAlloc(mBufferYUV, numBuffers, pDim)
       IN \E ok \in BOOLEAN :
            /\ (~need) => ok
            /\ cStale' = (cStale \/ (need /\ HoldsRawSlot))
            /\ IF ~ok
               THEN /\ mBufferYUV' = RB_AllocFailed(mBufferYUV)
                    /\ pFail' = "alloc"
                    /\ prodPc' = "cb_bus"
                    /\ UNCHANGED pSlot
               ELSE LET rb   == RB_Alloc(mBufferYUV, numBuffers, pDim)
                        slot == RB_PeekWrite(rb)
                    IN IF slot = NullSlot
                       THEN /\ mBufferYUV' = rb
                            /\ pFail' = "peek"
                            /\ prodPc' = "cb_bus"
                            /\ UNCHANGED pSlot
                       ELSE /\ mBufferYUV' = RB_Store(rb, slot, Torn)
                            /\ pSlot' = slot
                            /\ prodPc' = "cb_copying"
                            /\ UNCHANGED pFail
    /\ pDim' = 0
    /\ pMaps' = release_return(pMaps)
    /\ UNCHANGED << decVars, optVars, mBufferRGB, mWaitEvent, mPipeline, mBus,
                    pEffects, conPc, openFrom, openErr, cFmt, cTimeout,
                    cSlot, cDim, cSeen, cResult, output, histVars >>

\* checkBuffer: memcpy has written the whole frame into the slot
CbCopyDone ==
    /\ prodPc = "cb_copying"
    /\ mBufferYUV' = RB_Store(mBufferYUV, pSlot, Frame(nextId + 1))
    /\ prodPc' = "cb_publish"
    /\ UNCHANGED << decVars, optVars, mBufferRGB, mWaitEvent, mPipeline, mBus,
                    pFail, pDim, pSlot, pMaps, pEffects, conVars, histVars >>

\* CbPublish with back-pressure: the producer waits until the consumer has
\* read the previous frame
CbPublish_Backpressure ==
    /\ prodPc = "cb_publish"
    /\ (nextId = 0 \/ mBufferYUV.readOnce)
    /\ mBufferYUV' = RB_NextWrite(mBufferYUV)
    /\ nextId' = nextId + 1
    /\ pEffects' = pEffects \cup {"publish"}
    /\ prodPc' = "cb_wake"
    /\ UNCHANGED << decVars, optVars, mBufferRGB, mWaitEvent, mPipeline, mBus,
                    pFail, pDim, pSlot, pMaps, conVars, eosReturned,
                    callAfterEOS,
                    capAfterClose, capQuiet, prevConvFail, delivered,
                    dupDelivered, closeHist, kept >>

\* checkBuffer: mBufferYUV.Next(RingBuffer::Write)
CbPublish ==
    /\ prodPc = "cb_publish"
    /\ mBufferYUV' = RB_NextWrite(mBufferYUV)
    /\ nextId' = nextId + 1
    /\ pEffects' = pEffects \cup {"publish"}
    /\ prodPc' = "cb_wake"
    /\ UNCHANGED << decVars, optVars, mBufferRGB, mWaitEvent, mPipeline, mBus,
                    pFail, pDim, pSlot, pMaps, conVars, eosReturned,
                    callAfterEOS,
                    capAfterClose, capQuiet, prevConvFail, delivered,
                    dupDelivered, closeHist, kept >>

\* CbWake that signals only a consumer that already waits: a wake sent
\* before Wait is lost
CbWake_Lost ==
    /\ prodPc = "cb_wake"
    /\ mWaitEvent' = (mWaitEvent \/ conPc = "cap_blocked")
    /\ pEffects' = pEffects \cup {"wake"}
    /\ pMaps' = release_return(pMaps - 1)
    /\ prodPc' = "cb_bus"
    /\ UNCHANGED << decVars, optVars, mBufferYUV, mBufferRGB, mPipeline, mBus,
                    pFail, pDim, pSlot, conVars, histVars >>

\* checkBuffer: mWaitEvent.Wake(), then gst_buffer_unmap and release_return
CbWake ==
    /\ prodPc = "cb_wake"
    /\ mWaitEvent' = TRUE
    /\ pEffects' = pEffects \cup {"wake"}
    /\ pMaps' = release_return(pMaps - 1)
    /\ prodPc' = "cb_bus"
    /\ UNCHANGED << decVars, optVars, mBufferYUV, mBufferRGB, mPipeline, mBus,
                    pFail, pDim, pSlot, conVars, histVars >>

\* onBuffer: checkMsgBus, return; the sample and its buffer are out of the
\* callback's reach
CbBus ==
    /\ prodPc = "cb_bus"
    /\ checkMsgBus
    /\ prodPc' = "idle"
    /\ pFail' = "none"
    /\ pDim' = 0
    /\ pSlot' = NullSlot
    /\ pMaps' = 0
    /\ pEffects' = {}
    /\ UNCHANGED << decVars, optVars, mBufferYUV, mBufferRGB, mWaitEvent,
                    mPipeline, conVars, histVars >>

\* --------------------------------------------------------------- backend
\* an asynchronous start completes: the pipeline plays, or the start fails
\* and the error is posted on the bus
BackendAsync(ok) ==
    /\ mPipeline = "ASYNC"
    /\ IF ok THEN mPipeline' = "PLAYING" /\ UNCHANGED mBus
             ELSE mPipeline' = "NULL" /\ mBus' = TRUE
    /\ UNCHANGED << decVars, optVars, mBufferYUV, mBufferRGB, mWaitEvent,
                    prodVars, conVars, histVars >>

\* --------------------------------------------------- application thread
\* A call returns to the caller: cResult tells the call, its return value and
\* why; the locals of the call are dead.
ConReturn(res) ==
    /\ conPc' = "idle"
    /\ cResult' = res
    /\ openFrom' = "api"
    /\ openErr' = "none"
    /\ cFmt' = "rgb8"
    /\ cTimeout' = "zero"
    /\ cSlot' = NullSlot
    /\ cDim' = 0
    /\ cStale' = FALSE
    /\ cSeen' = Garbage
    /\ callAfterEOS' = FALSE
    /\ capAfterClose' = FALSE
    /\ capQuiet' = FALSE
    /\ prevConvFail' = (prevConvFail /\ res = "cap_ok")

\* Open() returns ok, to Capture() (which goes on, or returns false) or to
\* the caller; why: "eos", "start" (the start transition failed), "bus" (an
\* error was on the bus during the poll) or "none"
OpenReturn(ok, why) ==
    IF openFrom = "capture"
    THEN IF ok
         THEN /\ conPc' = "cap_wait"
              /\ openErr' = "none"
              /\ capAfterClose' = FALSE
              /\ UNCHANGED << cResult, openFrom, cFmt, cTimeout, cSlot, cDim,
                              cStale, cSeen, callAfterEOS, capQuiet,
                              prevConvFail >>
         ELSE ConReturn("cap_fail_open")
    ELSE ConReturn(IF ok THEN (IF why = "bus" THEN "open_true_buserr"
                                              ELSE "open_true")
                         ELSE (IF why = "eos" THEN "open_false_eos"
                                              ELSE "open_false_start"))

\* the caller calls Open()
ApiOpen ==
    /\ conPc = "idle"
    /\ conPc' = "open_eos"
    /\ openFrom' = "api"
    /\ cResult' = "none"
    /\ output' = NoOutput
    /\ callAfterEOS' = eosReturned
    /\ prevConvFail' = FALSE
    /\ closeHist' = << >>
    /\ UNCHANGED << decVars, optVars, mBufferYUV, mBufferRGB, mWaitEvent,
                    mPipeline, mBus, prodVars, openErr, cFmt, cTimeout, cSlot,
                    cDim, cStale, cSeen, nextId, eosReturned, capAfterClose,
                    capQuiet, delivered, dupDelivered, kept >>

\* Open: if( mEOS ) return false
OpenCheckEOS ==
    /\ conPc = "open_eos"
    /\ IF mEOS
       THEN OpenReturn(FALSE, "eos")
       ELSE /\ conPc' = "open_streaming"
            /\ UNCHANGED << cResult, openFrom, openErr, cFmt, cTimeout, cSlot, cDim,
                            cStale, cSeen, callAfterEOS, capAfterClose, capQuiet,
                            prevConvFail >>
    /\ UNCHANGED << decVars, optVars, mBufferYUV, mBufferRGB, mWaitEvent,
                    mPipeline, mBus, prodVars, output, nextId, closeHist, eosReturned,
                    delivered, dupDelivered, kept >>

\* Open: if( mStreaming ) return true
OpenCheckStreaming ==
    /\ conPc = "open_streaming"
    /\ IF mStreaming
       THEN OpenReturn(TRUE, "none")
       ELSE /\ conPc' = "open_setstate"
            /\ UNCHANGED << cResult, openFrom, openErr, cFmt, cTimeout, cSlot, cDim,
                            cStale, cSeen, callAfterEOS, capAfterClose, capQuiet,
                            prevConvFail >>
    /\ UNCHANGED << decVars, optVars, mBufferYUV, mBufferRGB, mWaitEvent,
                    mPipeline, mBus, prodVars, output, nextId, closeHist, eosReturned,
                    delivered, dupDelivered, kept >>

\* OpenSetState that sets mStreaming before it tests the result of the start
OpenSetState_EarlyFlag(result) ==
    /\ conPc = "open_setstate"
    /\ result \in {"SUCCESS", "ASYNC", "FAILURE"}
    /\ (mPipeline = "PLAYING") => (result = "SUCCESS")
    /\ mStreaming' = TRUE
    /\ IF result = "FAILURE"
       THEN /\ OpenReturn(FALSE, "start")
            /\ UNCHANGED mPipeline
       ELSE /\ mPipeline' = IF result = "SUCCESS" THEN "PLAYING" ELSE "ASYNC"
            /\ conPc' = "open_poll"
            /\ UNCHANGED << cResult, openFrom, openErr, cFmt, cTimeout, cSlot, cDim,
                            cStale, cSeen, callAfterEOS, capAfterClose, capQuiet,
                            prevConvFail >>
    /\ UNCHANGED << mEOS, optVars, mBufferYUV, mBufferRGB, mWaitEvent,
                    mBus, prodVars, output, nextId, closeHist, eosReturned, delivered,
                    dupDelivered, kept >>

\* Open: gst_element_set_state(mPipeline, GST_STATE_PLAYING) and the test of
\* its result.  A pipeline that already plays cannot fail to play.
OpenSetState(result) ==
    /\ conPc = "open_setstate"
    /\ result \in {"SUCCESS", "ASYNC", "FAILURE"}
    /\ (mPipeline = "PLAYING") => (result = "SUCCESS")
    /\ IF result = "FAILURE"
       THEN /\ OpenReturn(FALSE, "start")
            /\ UNCHANGED mPipeline
       ELSE /\ mPipeline' = IF result = "SUCCESS" THEN "PLAYING" ELSE "ASYNC"
            /\ conPc' = "open_poll"
            /\ UNCHANGED << cResult, openFrom, openErr, cFmt, cTimeout, cSlot, cDim,
                            cStale, cSeen, callAfterEOS, capAfterClose, capQuiet,
                            prevConvFail >>
    /\ UNCHANGED << decVars, optVars, mBufferYUV, mBufferRGB, mWaitEvent,
                    mBus, prodVars, output, nextId, closeHist, eosReturned, delivered,
                    dupDelivered, kept >>

\* Open: the first checkMsgBus()
OpenPoll ==
    /\ conPc = "open_poll"
    /\ openErr' = IF mBus THEN "bus" ELSE openErr
    /\ checkMsgBus
    /\ conPc' = "open_sleep"
    /\ UNCHANGED << decVars, optVars, mBufferYUV, mBufferRGB, mWaitEvent,
                    mPipeline, prodVars, openFrom, cFmt, cTimeout, cSlot, cDim,
                    cStale, cSeen, cResult, output, histVars >>

\* Open: usleep, the second checkMsgBus(), mStreaming = true, return true
OpenFinish ==
    /\ conPc = "open_sleep"
    /\ checkMsgBus
    /\ mStreaming' = TRUE
    /\ OpenReturn(TRUE, IF mBus THEN "bus" ELSE openErr)
    /\ UNCHANGED << mEOS, optVars, mBufferYUV, mBufferRGB, mWaitEvent,
                    mPipeline, prodVars, output, nextId, closeHist, eosReturned,
                    delivered, dupDelivered, kept >>

\* an unread frame is published in the raw pool
UnreadFrame == nextId > 0 /\ mBufferYUV.count > 0 /\ ~mBufferYUV.readOnce

\* the history of consecutive Close() calls after one more of them, which
\* leaves the end-of-stream flag e, the Streaming flag st and the pipeline p
CloseHistAfter(h, e, st, p) ==
    IF h = << >> THEN <<1, e, st, p>> ELSE <<2, h[2], h[3], h[4]>>

\* the caller calls Close(): if( !mStreaming && !mEOS ) return
CloseCheck ==
    /\ conPc = "idle"
    /\ IF ~mStreaming /\ ~mEOS
       THEN /\ conPc' = "idle"
            /\ cResult' = "close_noop"
            /\ closeHist' = CloseHistAfter(closeHist, mEOS, mStreaming,
                                           mPipeline)
       ELSE /\ conPc' = "close_setstate"
            /\ cResult' = "none"
            /\ UNCHANGED closeHist
    /\ output' = NoOutput
    /\ callAfterEOS' = (eosReturned /\ conPc' # "idle")
    /\ prevConvFail' = FALSE
    /\ UNCHANGED << decVars, optVars, mBufferYUV, mBufferRGB, mWaitEvent,
                    mPipeline, mBus, prodVars, openFrom, openErr, cFmt,
                    cTimeout, cSlot, cDim, cStale, cSeen, nextId, eosReturned,
                    capAfterClose, capQuiet, delivered, dupDelivered, kept >>

\* Close: gst_element_set_state(mPipeline, GST_STATE_NULL)
CloseSetState ==
    /\ conPc = "close_setstate"
    /\ mPipeline' = "NULL"
    /\ conPc' = "close_drain"
    /\ UNCHANGED << decVars, optVars, mBufferYUV, mBufferRGB, mWaitEvent,
                    mBus, prodVars, openFrom, openErr, cFmt, cTimeout, cSlot,
                    cDim, cStale, cSeen, cResult, output, histVars >>

\* CloseFinish that resets the decoder for a new start: it clears mEOS too
CloseFinish_ClearsEOS ==
    /\ conPc = "close_drain"
    /\ checkMsgBus
    /\ mStreaming' = FALSE
    /\ mEOS' = FALSE
    /\ kept' = (UnreadFrame /\ prodPc = "idle")
    /\ IF inDtor
       THEN /\ conPc' = "dtor_release"
            /\ UNCHANGED << cResult, openFrom, openErr, cFmt, cTimeout, cSlot,
                            cDim, cStale, cSeen, callAfterEOS, capAfterClose,
                            capQuiet, prevConvFail, closeHist >>
       ELSE /\ ConReturn("closed")
            /\ closeHist' = CloseHistAfter(closeHist, mEOS, FALSE, mPipeline)
    /\ UNCHANGED << optVars, mBufferYUV, mBufferRGB, mWaitEvent,
                    mPipeline, prodVars, output, nextId, eosReturned,
                    delivered, dupDelivered >>

\* CloseFinish that flushes: it resets the wake signal
CloseFinish_Flushes ==
    /\ conPc = "close_drain"
    /\ checkMsgBus
    /\ mStreaming' = FALSE
    /\ mWaitEvent' = FALSE
    /\ kept' = (UnreadFrame /\ prodPc = "idle")
    /\ IF inDtor
       THEN /\ conPc' = "dtor_release"
            /\ UNCHANGED << cResult, openFrom, openErr, cFmt, cTimeout, cSlot,
                            cDim, cStale, cSeen, callAfterEOS, capAfterClose,
                            capQuiet, prevConvFail, closeHist >>
       ELSE /\ ConReturn("closed")
            /\ closeHist' = CloseHistAfter(closeHist, mEOS, FALSE, mPipeline)
    /\ UNCHANGED << mEOS, optVars, mBufferYUV, mBufferRGB,
                    mPipeline, prodVars, output, nextId, eosReturned,
                    delivered, dupDelivered >>

\* Close: usleep, checkMsgBus(), mStreaming = false; Close returns, to the
\* caller or to the destructor
CloseFinish ==
    /\ conPc = "close_drain"
    /\ checkMsgBus
    /\ mStreaming' = FALSE
    /\ kept' = (UnreadFrame /\ prodPc = "idle")
    /\ IF inDtor
       THEN /\ conPc' = "dtor_release"
            /\ UNCHANGED << cResult, openFrom, openErr, cFmt, cTimeout, cSlot,
                            cDim, cStale, cSeen, callAfterEOS, capAfterClose,
                            capQuiet, prevConvFail, closeHist >>
       ELSE /\ ConReturn("closed")
            /\ closeHist' = CloseHistAfter(closeHist, mEOS, FALSE, mPipeline)
    /\ UNCHANGED << mEOS, optVars, mBufferYUV, mBufferRGB, mWaitEvent,
                    mPipeline, prodVars, output, nextId, eosReturned,
                    delivered, dupDelivered >>

\* DtorBegin that releases the handles without calling Close()
DtorBegin_SkipsClose ==
    /\ conPc = "idle"
    /\ ~inDtor
    /\ inDtor' = TRUE
    /\ conPc' = "dtor_release"
    /\ cResult' = "none"
    /\ output' = NoOutput
    /\ callAfterEOS' = FALSE
    /\ prevConvFail' = FALSE
    /\ closeHist' = << >>
    /\ UNCHANGED << decVars, optWidth, optHeight, numBuffers, cfg, created,
                    handles, mBufferYUV, mBufferRGB, mWaitEvent, mPipeline,
                    mBus, prodVars, openFrom, openErr, cFmt, cTimeout, cSlot,
                    cDim, cStale, cSeen, nextId, eosReturned, capAfterClose,
                    capQuiet, delivered, dupDelivered, kept >>

\* ~gstDecoder: Close() is called, which tests if( !mStreaming && !mEOS )
DtorBegin ==
    /\ conPc = "idle"
    /\ ~inDtor
    /\ inDtor' = TRUE
    /\ conPc' = IF ~mStreaming /\ ~mEOS THEN "dtor_release"
                                        ELSE "close_setstate"
    /\ cResult' = "none"
    /\ output' = NoOutput
    /\ callAfterEOS' = FALSE
    /\ prevConvFail' = FALSE
    /\ closeHist' = << >>
    /\ UNCHANGED << decVars, optWidth, optHeight, numBuffers, cfg, created,
                    handles, mBufferYUV, mBufferRGB, mWaitEvent, mPipeline,
                    mBus, prodVars, openFrom, openErr, cFmt, cTimeout, cSlot,
                    cDim, cStale, cSeen, nextId, eosReturned, capAfterClose,
                    capQuiet, delivered, dupDelivered, kept >>

\* ~gstDecoder: after Close(), gst_object_unref of mAppSink, mBus, mPipeline
DtorRelease ==
    /\ conPc = "dtor_release"
    /\ handles' = "released"
    /\ conPc' = "destroyed"
    /\ UNCHANGED << decVars, optWidth, optHeight, numBuffers, cfg, created,
                    inDtor, mBufferYUV, mBufferRGB, mWaitEvent, mPipeline,
                    mBus, prodVars, openFrom, openErr, cFmt, cTimeout, cSlot,
                    cDim, cStale, cSeen, cResult, output, histVars >>

\* CapBegin without the implicit Open(): a Capture() on a decoder that is
\* not Streaming goes on to Wait
CapBegin_NoImplicitOpen(fmt, timeout, hasOut) ==
    /\ conPc = "idle"
    /\ output' = NoOutput
    /\ closeHist' = << >>
    /\ IF ~hasOut
       THEN /\ conPc' = "idle"
            /\ cResult' = "cap_fail_null"
            /\ prevConvFail' = FALSE
            /\ UNCHANGED << cFmt, cTimeout, openFrom, callAfterEOS,
                            capAfterClose, capQuiet >>
       ELSE /\ cResult' = "none"
            /\ cFmt' = fmt
            /\ cTimeout' = timeout
            /\ callAfterEOS' = eosReturned
            /\ capAfterClose' = (cResult = "closed" /\ ~mEOS)
            /\ prevConvFail' = (cResult = "cap_fail_convert")
            /\ capQuiet' = (mStreaming /\ prodPc = "idle" /\ UnreadFrame)
            /\ IF TRUE
               THEN conPc' = "cap_wait" /\ UNCHANGED openFrom
               ELSE conPc' = "open_eos" /\ openFrom' = "capture"
    /\ UNCHANGED << decVars, optVars, mBufferYUV, mBufferRGB, mWaitEvent,
                    mPipeline, mBus, prodVars, openErr, cSlot, cDim, cStale,
                    cSeen, nextId, eosReturned, delivered, dupDelivered,
                    kept >>

\* the caller calls Capture(output, fmt, timeout): the test of the output
\* pointer and of mStreaming.  hasOut: the output pointer is not NULL.
CapBegin(fmt, timeout, hasOut) ==
    /\ conPc = "idle"
    /\ output' = NoOutput
    /\ closeHist' = << >>
    /\ IF ~hasOut
       THEN /\ conPc' = "idle"
            /\ cResult' = "cap_fail_null"
            /\ prevConvFail' = FALSE
            /\ UNCHANGED << cFmt, cTimeout, openFrom, callAfterEOS,
                            capAfterClose, capQuiet >>
       ELSE /\ cResult' = "none"
            /\ cFmt' = fmt
            /\ cTimeout' = timeout
            /\ callAfterEOS' = eosReturned
            /\ capAfterClose' = (cResult = "closed" /\ ~mEOS)
            /\ prevConvFail' = (cResult = "cap_fail_convert")
            /\ capQuiet' = (mStreaming /\ prodPc = "idle" /\ UnreadFrame)
            /\ IF mStreaming
               THEN conPc' = "cap_wait" /\ UNCHANGED openFrom
               ELSE conPc' = "open_eos" /\ openFrom' = "capture"
    /\ UNCHANGED << decVars, optVars, mBufferYUV, mBufferRGB, mWaitEvent,
                    mPipeline, mBus, prodVars, openErr, cSlot, cDim, cStale,
                    cSeen, nextId, eosReturned, delivered, dupDelivered,
                    kept >>

\* CapWait that takes the timeout 0 for "no timeout": it blocks
CapWait_ZeroBlocks ==
    /\ conPc = "cap_wait"
    /\ IF mWaitEvent
       THEN /\ mWaitEvent' = FALSE
            /\ conPc' = "cap_read"
       ELSE /\ UNCHANGED mWaitEvent
            /\ conPc' = "cap_blocked"
    /\ UNCHANGED << decVars, optVars, mBufferYUV, mBufferRGB, mPipeline, mBus,
                    prodVars, cResult, openFrom, openErr, cFmt, cTimeout,
                    cSlot, cDim, cStale, cSeen, output, histVars >>

\* Capture: mWaitEvent.Wait(timeout) is called.  A pending wake is consumed
\* and Wait returns at once; with timeout 0 Wait polls; else it blocks.
CapWait ==
    /\ conPc = "cap_wait"
    /\ IF mWaitEvent
       THEN /\ mWaitEvent' = FALSE
            /\ conPc' = "cap_read"
            /\ cTimeout' = "zero"
            /\ UNCHANGED << cResult, openFrom, openErr, cFmt, cSlot, cDim,
                            cStale, cSeen, callAfterEOS, capAfterClose, capQuiet,
                            prevConvFail >>
       ELSE /\ UNCHANGED mWaitEvent
            /\ IF cTimeout = "zero"
               THEN ConReturn("cap_fail_poll")
               ELSE /\ conPc' = "cap_blocked"
                    /\ UNCHANGED << cResult, openFrom, openErr, cFmt, cTimeout,
                                    cSlot, cDim, cStale, cSeen, callAfterEOS, capAfterClose,
                                    capQuiet, prevConvFail >>
    /\ UNCHANGED << decVars, optVars, mBufferYUV, mBufferRGB, mPipeline, mBus,
                    prodVars, output, nextId, closeHist, eosReturned, delivered,
                    dupDelivered, kept >>

\* Capture: the blocked Wait is woken
CapWoken ==
    /\ conPc = "cap_blocked"
    /\ mWaitEvent
    /\ mWaitEvent' = FALSE
    /\ conPc' = "cap_read"
    /\ cTimeout' = "zero"
    /\ UNCHANGED << decVars, optVars, mBufferYUV, mBufferRGB, mPipeline, mBus,
                    prodVars, openFrom, openErr, cFmt, cSlot, cDim, cStale,
                    cSeen, cResult, output, histVars >>

\* Capture: the blocked Wait times out; Capture returns false
CapTimeout ==
    /\ conPc = "cap_blocked"
    /\ cTimeout = "finite"
    /\ ConReturn("cap_fail_wait")
    /\ UNCHANGED << decVars, optVars, mBufferYUV, mBufferRGB, mWaitEvent,
                    mPipeline, mBus, prodVars, output, nextId, closeHist, eosReturned,
                    delivered, dupDelivered, kept >>

\* CapRead that asks the ring for the oldest slot (RingBuffer::Read), not for
\* the latest one
CapRead_Oldest ==
    /\ conPc = "cap_read"
    /\ mBufferYUV' = RB_ReadLatestOnce(mBufferYUV)
    /\ LET slot == IF RB_ReadLatestOnceSlot(mBufferYUV) = NullSlot
                   THEN NullSlot
                   ELSE (mBufferYUV.write + 1) % mBufferYUV.count
       IN IF slot = NullSlot
          THEN ConReturn("cap_fail_read")
          ELSE /\ conPc' = "cap_alloc"
               /\ cSlot' = slot
               /\ cDim' = mBufferYUV.size
               /\ UNCHANGED << cResult, openFrom, openErr, cFmt, cTimeout,
                               cStale, cSeen, callAfterEOS, capAfterClose,
                               capQuiet, prevConvFail >>
    /\ UNCHANGED << decVars, optVars, mBufferRGB, mWaitEvent, mPipeline, mBus,
                    prodVars, output, nextId, closeHist, eosReturned, delivered,
                    dupDelivered, kept >>

\* Capture: latestYUV = mBufferYUV.Next(RingBuffer::ReadLatestOnce)
CapRead ==
    /\ conPc = "cap_read"
    /\ mBufferYUV' = RB_ReadLatestOnce(mBufferYUV)
    /\ LET slot == RB_ReadLatestOnceSlot(mBufferYUV)
       IN IF slot = NullSlot
          THEN ConReturn("cap_fail_read")
          ELSE /\ conPc' = "cap_alloc"
               /\ cSlot' = slot
               /\ cDim' = mBufferYUV.size
               /\ UNCHANGED << cResult, openFrom, openErr, cFmt, cTimeout,
                               cStale, cSeen, callAfterEOS, capAfterClose,
                               capQuiet, prevConvFail >>
    /\ UNCHANGED << decVars, optVars, mBufferRGB, mWaitEvent, mPipeline, mBus,
                    prodVars, output, nextId, closeHist, eosReturned, delivered,
                    dupDelivered, kept >>

\* imageFormatSize: bytes of a width x height image; 0 for an unknown format
ImageFormatSize(fmt, width, height) ==
    IF fmt = "rgb8" THEN width * height * 3 ELSE 0

\* Capture: mBufferRGB.Alloc(numBuffers, imageFormatSize(format, GetWidth(),
\* GetHeight())); a reallocation may fail
CapAllocRGB ==
    /\ conPc = "cap_alloc"
    /\ LET size == ImageFormatSize(cFmt, optWidth, optHeight)
       IN \E ok \in BOOLEAN :
            /\ (size = mBufferRGB) => ok
            /\ kept' = (kept /\ ok)
            /\ IF ok
               THEN /\ mBufferRGB' = size
                    /\ conPc' = "cap_convert"
                    /\ UNCHANGED << cResult, openFrom, openErr, cFmt, cTimeout,
                                    cSlot, cDim, cStale, cSeen, callAfterEOS, capAfterClose,
                                    capQuiet, prevConvFail >>
               ELSE /\ mBufferRGB' = 0
                    /\ ConReturn("cap_fail_alloc")
    /\ UNCHANGED << decVars, optVars, mBufferYUV, mWaitEvent, mPipeline, mBus,
                    prodVars, output, nextId, closeHist, eosReturned, delivered,
                    dupDelivered >>

\* what the memory behind the consumer's raw pointer holds now
RawAt(slot, stale) == IF stale THEN Garbage ELSE mBufferYUV.slots[slot]

\* Capture: nextRGB = mBufferRGB.Next(Write); cudaConvertColor starts to read
\* latestYUV
CapConvertBegin ==
    /\ conPc = "cap_convert"
    /\ cSeen' = RawAt(cSlot, cStale)
    /\ conPc' = "cap_converting"
    /\ UNCHANGED << decVars, optVars, mBufferYUV, mBufferRGB, mWaitEvent,
                    mPipeline, mBus, prodVars, openFrom, openErr, cFmt,
                    cTimeout, cSlot, cDim, cStale, cResult, output, histVars >>

\* cudaConvertColor: an unsupported output format is an error
ConvertFails(fmt) == fmt \notin {"rgb8"}

\* the frame the conversion has read: torn if the slot changed under it
Converted == IF RawAt(cSlot, cStale) = cSeen THEN cSeen ELSE Torn

\* CapConvertEnd that stores the output pointer before it tests the result
\* of the conversion
CapConvertEnd_WritesOutput ==
    /\ conPc = "cap_converting"
    /\ output' = Converted
    /\ IF ConvertFails(cFmt)
       THEN /\ ConReturn("cap_fail_convert")
            /\ UNCHANGED << delivered, dupDelivered, kept >>
       ELSE /\ ConReturn("cap_ok")
            /\ IF Converted[1] = "frame"
               THEN /\ delivered' = delivered \cup {Converted[2]}
                    /\ dupDelivered' = (dupDelivered \/ Converted[2] \in delivered)
               ELSE UNCHANGED << delivered, dupDelivered, kept >>
    /\ kept' = FALSE
    /\ UNCHANGED << decVars, optVars, mBufferYUV, mBufferRGB, mWaitEvent,
                    mPipeline, mBus, prodVars, nextId, closeHist, eosReturned >>

\* Capture: cudaConvertColor returns; on success *output = nextRGB
CapConvertEnd ==
    /\ conPc = "cap_converting"
    /\ IF ConvertFails(cFmt)
       THEN /\ ConReturn("cap_fail_convert")
            /\ UNCHANGED << output, delivered, dupDelivered, kept >>
       ELSE /\ ConReturn("cap_ok")
            /\ output' = Converted
            /\ IF Converted[1] = "frame"
               THEN /\ delivered' = delivered \cup {Converted[2]}
                    /\ dupDelivered' = (dupDelivered \/ Converted[2] \in delivered)
               ELSE UNCHANGED << delivered, dupDelivered, kept >>
    /\ kept' = FALSE
    /\ UNCHANGED << decVars, optVars, mBufferYUV, mBufferRGB, mWaitEvent,
                    mPipeline, mBus, prodVars, nextId, closeHist, eosReturned >>

\* ------------------------------------------------------------------ Next
ProducerStep ==
    \/ OnEOSSet
    \/ OnEOSClear
    \/ \E sample \in BOOLEAN : OnPrerollPull(sample)
    \/ OnPrerollBus
    \/ \E fail \in EarlyFails \cup {"none"}, d \in FrameDims : CbStart(fail, d)
    \/ CbAllocCopy
    \/ CbCopyDone
    \/ CbPublish
    \/ CbWake
    \/ CbBus

ConsumerStep ==
    \/ ApiOpen
    \/ OpenCheckEOS
    \/ OpenCheckStreaming
    \/ \E result \in {"SUCCESS", "ASYNC", "FAILURE"} : OpenSetState(result)
    \/ OpenPoll
    \/ OpenFinish
    \/ CloseCheck
    \/ CloseSetState
    \/ CloseFinish
    \/ DtorBegin
    \/ DtorRelease
    \/ \E fmt \in Formats, timeout \in Timeouts, hasOut \in BOOLEAN :
          CapBegin(fmt, timeout, hasOut)
    \/ CapWait
    \/ CapWoken
    \/ CapTimeout
    \/ CapRead
    \/ CapAllocRGB
    \/ CapConvertBegin
    \/ CapConvertEnd

BackendStep == \E ok \in BOOLEAN : BackendAsync(ok)

Next == ProducerStep \/ ConsumerStep \/ BackendStep

Spec == Init /\ [][Next]_vars

\* the same decoder with a pre-specified width or height
SpecPreset == InitPreset /\ [][Next]_vars

\* construction alone
NextCreate == \E parse \in {"ok", "err", "nosink"} : Create(parse)

SpecCreate == InitCreate /\ [][NextCreate]_vars

\* ---------------------------------------------------------------- claims
CbPcs  == {"cb_alloc", "cb_copying", "cb_publish", "cb_wake", "cb_bus"}
CapPcs == {"cap_wait", "cap_blocked", "cap_read", "cap_alloc", "cap_convert",
           "cap_converting"}

\* C1: once onEOS has returned, an Open() that begins afterwards gets no
\* further than the test of mEOS (it returns false), and a Capture() that
\* begins afterwards returns false out of its implicit Open() and never
\* reaches the Wait on the wake signal.
C1_EOSIsTerminal ==
    callAfterEOS => conPc \in {"open_eos", "close_setstate", "close_drain"}

\* C2: latest-wins.  A Capture() that begins on a Streaming decoder with an
\* unread frame published and the producer idle, and during which no frame
\* arrives, passes Wait without blocking, is handed the slot of the most
\* recently published frame (id nextId), reads that frame whole and returns it.
C2_LatestWins ==
    /\ [](capQuiet =>
            /\ conPc \in CapPcs \ {"cap_blocked"}
            /\ (conPc = "cap_wait" => mWaitEvent)
            /\ (conPc = "cap_read" => RB_ReadLatestOnceSlot(mBufferYUV) # NullSlot)
            /\ (conPc \in {"cap_alloc", "cap_convert"}
                  => RawAt(cSlot, cStale) = Frame(nextId))
            /\ (conPc = "cap_converting"
                  => cSeen = Frame(nextId) /\ Converted = Frame(nextId)))
    /\ [][(capQuiet /\ cResult' = "cap_ok") => output' = Frame(nextId)]_vars

\* C2 witness: more frames than the ring has slots were published, and the
\* capture is converting the last of them
C2_Witness ==
    /\ capQuiet
    /\ conPc = "cap_converting"
    /\ nextId > mBufferYUV.count
    /\ cSeen = Frame(nextId)

\* C3: no frame is returned by two Capture() calls.
C3_NoDuplicateDelivery == ~dupDelivered

\* C4: no lost wake.  A Wait that finds a wake pending returns at once; and
\* whenever an unread frame is published, the producer is idle and the
\* consumer is at or in Wait, a wake is pending (so the Wait returns).
C4_NoLostWake ==
    /\ []((prodPc = "idle" /\ UnreadFrame /\ conPc \in {"cap_wait", "cap_blocked"})
            => mWaitEvent)
    /\ [][(conPc = "cap_wait" /\ mWaitEvent /\ conPc' # conPc)
            => (conPc' = "cap_read" /\ ~mWaitEvent')]_vars

\* C4 witness: a consumer blocked with no timeout has been sent the wake of a
\* frame published meanwhile
C4_Witness ==
    /\ conPc = "cap_blocked"
    /\ cTimeout = "infinite"
    /\ prodPc = "idle"
    /\ UnreadFrame
    /\ mWaitEvent

\* C5: while the conversion reads the raw slot, the producer neither copies
\* into that slot nor has reallocated the pool under the consumer's pointer.
C5_NoTornRead ==
    conPc = "cap_converting" =>
        /\ ~cStale
        /\ ~(prodPc = "cb_copying" /\ pSlot = cSlot)

\* the steps of a callback that has begun
InCallbackStep ==
    \/ OnEOSClear
    \/ OnPrerollBus
    \/ CbAllocCopy
    \/ CbCopyDone
    \/ CbPublish
    \/ CbWake
    \/ CbBus

\* C6: the producer is never blocked: in every state in which a callback has
\* begun, its next step can be taken, whatever the consumer does.
C6_ProducerNeverBlocked == (prodPc # "idle") => ENABLED InCallbackStep

\* C6 witness: the producer is about to publish a frame while an earlier frame
\* is unread and no Capture() has ever returned a frame
C6_Witness ==
    /\ prodPc = "cb_publish"
    /\ UnreadFrame
    /\ delivered = {}
    /\ conPc = "idle"

\* C7 as claimed: whenever the backend reported a start error during Open(),
\* by the result of the start transition or on the bus during the poll, Open()
\* returned false and mStreaming is false.
C7_StartErrorFailsOpen ==
    cResult \in {"open_false_start", "open_true_buserr"} =>
        (cResult = "open_false_start" /\ ~mStreaming)

\* C7 amended: when the start transition itself reports failure, Open()
\* returns false, mStreaming is false and mEOS is false, so a later Open()
\* runs the start transition again.
C7_StartTransitionFailure ==
    cResult = "open_false_start" => (~mStreaming /\ ~mEOS)

\* C7 witness: Open() returned false because the start transition failed
C7_Witness == cResult = "open_false_start" /\ mPipeline = "NULL"

\* C8: a Capture() that fails in the conversion leaves the caller's pointer
\* unwritten and changes neither mStreaming nor mEOS nor the pipeline.
C8_ConversionErrorIsLocal ==
    /\ [](cResult = "cap_fail_convert" => output = NoOutput)
    /\ [][cResult' = "cap_fail_convert" /\ cResult # "cap_fail_convert"
            => /\ conPc = "cap_converting"
               /\ mStreaming' = mStreaming
               /\ mEOS' = mEOS
               /\ mPipeline' = mPipeline]_vars

\* C8 witness: the Capture() that followed a conversion error returned a frame
C8_Witness ==
    /\ prevConvFail
    /\ cResult = "cap_ok"
    /\ output[1] = "frame"
    /\ mStreaming
    /\ ~mEOS

\* C9: a checkBuffer that gives up has published nothing and woken nobody;
\* the step in which it gives up leaves the write cursor, the read-once
\* marker, the wake signal and the count of published frames alone; and no
\* step of checkBuffer changes mStreaming or mEOS.
C9_IngestFailureDropsFrame ==
    /\ []((prodPc = "cb_bus" /\ pFail # "none") => pEffects = {})
    /\ [][(prodPc' = "cb_bus" /\ pFail' # "none" /\ prodPc # "cb_bus")
            => /\ mBufferYUV'.write = mBufferYUV.write
               /\ mBufferYUV'.readOnce = mBufferYUV.readOnce
               /\ mWaitEvent' = mWaitEvent
               /\ nextId' = nextId]_vars
    /\ [][(prodPc' # prodPc /\ (prodPc \in CbPcs \/ prodPc' \in CbPcs))
            => (mStreaming' = mStreaming /\ mEOS' = mEOS)]_vars

\* C9 witness: on a Streaming decoder a frame was published, and the next one
\* is dropped because the pool could not be reallocated
C9_Witness ==
    /\ prodPc = "cb_bus"
    /\ pFail = "alloc"
    /\ mStreaming
    /\ nextId >= 1

\* C10: a Capture() with timeout 0 never blocks in Wait; when no frame has
\* been published it returns false out of Wait with the output unwritten.
C10_PollBeforeFirstFrame ==
    /\ [](conPc = "cap_blocked" => cTimeout # "zero")
    /\ [][(conPc = "cap_wait" /\ cTimeout = "zero" /\ nextId = 0
             /\ conPc' # conPc)
            => (conPc' = "idle" /\ cResult' = "cap_fail_poll"
                  /\ output' = NoOutput)]_vars

\* C10 witness: on a Streaming decoder without any frame, a Capture() with
\* timeout 0 has returned false from its poll
C10_Witness ==
    /\ cResult = "cap_fail_poll"
    /\ nextId = 0
    /\ mStreaming
    /\ output = NoOutput

OpenPcs == {"open_eos", "open_streaming", "open_setstate", "open_poll",
            "open_sleep"}

C13_BadConfigFailsCreate ==
    LET bad ==
          \/ cfg.protocol \notin {"file", "rtp", "rtsp"}
          \/ (cfg.protocol = "file" /\ ~cfg.exists)
          \/ (cfg.protocol = "file"
                /\ cfg.extension \notin {"mkv", "mp4", "qt", "flv", "avi",
                                          "h264", "h265"})
          \/ (cfg.protocol = "rtp" /\ cfg.port <= 0)
          \/ cfg.codec \notin {"h264", "h265", "vp8", "vp9", "mpeg2", "mpeg4"}
    IN bad => /\ buildLaunchStr(cfg) = NoLaunch
              /\ (created # "none" => (created = "null" /\ handles = "none"))

\* C13 witness: Create() has returned NULL for an existing .mov file with a
\* supported codec
C13_Witness ==
    /\ created = "null"
    /\ handles = "none"
    /\ cfg.protocol = "file"
    /\ cfg.exists
    /\ cfg.extension = "mov"
    /\ cfg.codec = "h264"

\* C14: the configuration does not change after construction, and a
\* pre-specified (non-zero) width or height is never replaced by the size of
\* an incoming frame.
C14_PresetSizeKept ==
    /\ (cfg.width # 0 => optWidth = cfg.width)
    /\ (cfg.height # 0 => optHeight = cfg.height)

\* C15: whenever no call and no callback is in progress, mEOS and mStreaming
\* are not both true; and mEOS, once true, stays true.
C15_ThreeStateMachine ==
    /\ []((prodPc = "idle" /\ conPc = "idle") => ~(mEOS /\ mStreaming))
    /\ [][mEOS => mEOS']_vars

\* C16: no spurious wake.  Whenever Wait has returned success in Capture()
\* and the raw pool is allocated, ReadLatestOnce has a newly published frame
\* to hand out.
C16_NoSpuriousWake ==
    (conPc = "cap_read" /\ mBufferYUV.count > 0)
        => RB_ReadLatestOnceSlot(mBufferYUV) # NullSlot

C18_PrerollDiscarded ==
    /\ [][((prodPc = "idle" /\ prodPc' = "pr_bus")
              \/ (prodPc = "pr_bus" /\ prodPc' = "idle"))
            => UNCHANGED << mBufferYUV, mWaitEvent, optWidth, optHeight, mEOS,
                            mStreaming >>]_vars
    /\ [](nextId = 0 =>
            (cResult # "cap_ok"
               /\ conPc \notin {"cap_read", "cap_alloc", "cap_convert",
                                 "cap_converting"}))

\* C18 witness: a pre-roll sample was pulled while a Capture() is blocked in
\* Wait and no frame has been published
C18_Witness ==
    /\ prodPc = "pr_bus"
    /\ conPc = "cap_blocked"
    /\ nextId = 0
    /\ ~mWaitEvent

\* C19: when Capture() sizes the output pool and when it starts the
\* conversion, mOptions.width and mOptions.height are the width and height of
\* the raw frame it was handed by ReadLatestOnce.
C19_DimsOfConvertedFrame ==
    [][(conPc \in {"cap_alloc", "cap_convert"} /\ conPc' # conPc)
         => (optWidth = cDim /\ optHeight = cDim)]_vars

\* C20: Close() discards nothing.  No step of Close() changes the raw ring
\* buffer (slots, cursors, read-once marker), the output pool, the wake
\* signal, width, height or mEOS; and when an unread frame was published as
\* Close() returned and no sample has arrived since, the Capture() after the
\* re-open does not block in Wait, is handed that frame and, if it succeeds,
\* returns it.
C20_CloseKeepsFrames ==
    /\ [][(\/ (conPc \in {"close_setstate", "close_drain"} /\ conPc' # conPc)
           \/ (conPc = "idle" /\ conPc' = "close_setstate")
           \/ (conPc = "idle" /\ cResult' = "close_noop"
                 /\ closeHist' # closeHist))
            => UNCHANGED << mBufferYUV, mBufferRGB, mWaitEvent, optWidth,
                            optHeight, mEOS, nextId >>]_vars
    /\ [](kept =>
            /\ conPc # "cap_blocked"
            /\ (conPc = "cap_wait" => mWaitEvent)
            /\ (conPc = "cap_read"
                  => RB_ReadLatestOnceSlot(mBufferYUV) # NullSlot)
            /\ (conPc \in {"cap_alloc", "cap_convert"}
                  => RawAt(cSlot, cStale) = Frame(nextId))
            /\ (conPc = "cap_converting" => Converted = Frame(nextId)))
    /\ [][(kept /\ cResult' = "cap_ok" /\ cResult # "cap_ok")
            => output' = Frame(nextId)]_vars

\* C20 witness: after Close() and the re-open, Capture() converts the frame
\* that was unread when Close() returned
C20_Witness ==
    /\ kept
    /\ conPc = "cap_converting"
    /\ cFmt = "rgb8"
    /\ cSeen = Frame(nextId)
    /\ nextId >= 1

\* C21: whenever checkBuffer returns, by whichever exit it takes after
\* gst_buffer_map has succeeded (no caps structure, no width or height, a
\* non-positive size, a failed pool allocation, no write slot, or the
\* success path), the buffer has been unmapped exactly once: no mapping of
\* it is outstanding.
C21_MapUnmapPaired == (prodPc = "cb_bus") => (pMaps = 0)

====
